---- MODULE Spec2Model ----
(***************************************************************************)
(* Model of Maker.Point (src/src/point.ts): the point operations Zero,     *)
(* Ensure, Clone, Add, Subtract, Scale, Mirror, Rotate, FromPolar and      *)
(* FromArc, run by a caller over a heap of JavaScript objects.             *)
(*                                                                         *)
(* JavaScript values are records [t, n, s]: t is the type tag, n the       *)
(* number (or the heap address of a reference), s the string.  Objects     *)
(* live in `heap`, a sequence indexed by address; an object literal        *)
(* appends a new object.  Every operation is an operator from a heap and   *)
(* its arguments to an outcome [h, v, ok]: the heap afterwards, the value  *)
(* returned, and ok = FALSE when the call ended in a TypeError.            *)
(*                                                                         *)
(* Numbers are integers.  An angle in radians is held as a whole number of *)
(* quarter turns (unit pi/2), so that cos and sin are exact; degrees are   *)
(* multiples of 90.                                                        *)
(***************************************************************************)
EXTENDS Integers, Sequences, FiniteSets, TLC

VARIABLES heap, last, returned, mutated

vars == <<heap, last, returned, mutated>>

(* Bounds *)
MaxNum == 1
MaxLen == 3
MaxHeap == 2

----------------------------------------------------------------------------
(* JavaScript values *)

Undef == [t |-> "undefined", n |-> 0, s |-> ""]

Null == [t |-> "null", n |-> 0, s |-> ""]

NaN == [t |-> "NaN", n |-> 0, s |-> ""]

Num(k) == [t |-> "number", n |-> k, s |-> ""]

Str(str) == [t |-> "string", n |-> 0, s |-> str]

Bool(b) == [t |-> "boolean", n |-> IF b THEN 1 ELSE 0, s |-> ""]

Ref(a) == [t |-> "ref", n |-> a, s |-> ""]

IsNumber(v) == v.t = "number"

(* !v is false *)
Truthy(v) ==
    CASE v.t = "undefined" -> FALSE
      [] v.t = "null" -> FALSE
      [] v.t = "NaN" -> FALSE
      [] v.t = "number" -> v.n # 0
      [] v.t = "string" -> v.s # ""
      [] v.t = "boolean" -> v.n = 1
      [] OTHER -> TRUE

PropNames == {"x", "y", "origin", "radius", "startAngle", "endAngle"}

NoProps == [p \in PropNames |-> Undef]

(* the object literal { x: vx, y: vy } *)
PointObj(vx, vy) ==
    [kind |-> "object", props |-> [NoProps EXCEPT !["x"] = vx, !["y"] = vy], elems |-> <<>>]

(* an array literal *)
ArrayObj(es) == [kind |-> "array", props |-> NoProps, elems |-> es]

(* an arc path object *)
ArcObj(o, r, sa, ea) ==
    [kind |-> "object",
     props |-> [NoProps EXCEPT !["origin"] = o, !["radius"] = r,
                               !["startAngle"] = sa, !["endAngle"] = ea],
     elems |-> <<>>]

----------------------------------------------------------------------------
(* Outcomes of a call *)

Return(h, v) == [h |-> h, v |-> v, ok |-> TRUE]

Throw(h) == [h |-> h, v |-> Undef, ok |-> FALSE]

(* evaluation of an object or array literal: a new object *)
Alloc(h, obj) == Return(Append(h, obj), Ref(Len(h) + 1))

(* v.p throws on undefined and null, reads the property of an object and   *)
(* is undefined on the other primitives                                    *)
CanRead(v) == v.t \notin {"undefined", "null"}

Get(h, v, p) == IF v.t = "ref" THEN h[v.n].props[p] ELSE Undef

(* v.p = w, v an object *)
Set(h, v, p, w) == [h EXCEPT ![v.n].props[p] = w]

IsArray(h, v) == v.t = "ref" /\ h[v.n].kind = "array"

----------------------------------------------------------------------------
(* JavaScript arithmetic *)

RECURSIVE JoinElems(_, _, _)

(* String(v) *)
JsToString(h, v) ==
    CASE v.t = "undefined" -> "undefined"
      [] v.t = "null" -> "null"
      [] v.t = "NaN" -> "NaN"
      [] v.t = "number" -> ToString(v.n)
      [] v.t = "string" -> v.s
      [] v.t = "boolean" -> IF v.n = 1 THEN "true" ELSE "false"
      [] OTHER -> IF h[v.n].kind = "array"
                  THEN JoinElems(h, h[v.n].elems, 1)
                  ELSE "[object Object]"

(* Array.prototype.join: null and undefined elements give "" *)
JoinElems(h, es, i) ==
    IF i > Len(es) THEN ""
    ELSE (IF es[i].t \in {"undefined", "null"} THEN "" ELSE JsToString(h, es[i]))
         \o (IF i < Len(es) THEN "," ELSE "")
         \o JoinElems(h, es, i + 1)

NumRange == -(8 * (MaxNum + 1)) .. (8 * (MaxNum + 1))

(* Number(str): the empty string is 0, a decimal numeral its value *)
StrToNumber(str) ==
    IF str = "" THEN Num(0)
    ELSE IF \E k \in NumRange : ToString(k) = str
         THEN Num(CHOOSE k \in NumRange : ToString(k) = str)
         ELSE NaN

(* Number(v) *)
ToNumber(h, v) ==
    CASE v.t = "undefined" -> NaN
      [] v.t = "null" -> Num(0)
      [] v.t = "NaN" -> NaN
      [] v.t = "number" -> v
      [] v.t = "string" -> StrToNumber(v.s)
      [] v.t = "boolean" -> Num(v.n)
      [] OTHER -> StrToNumber(JsToString(h, v))

(* u + v: concatenation when either side is a string or an object *)
JsAdd(h, u, v) ==
    IF u.t \in {"string", "ref"} \/ v.t \in {"string", "ref"}
    THEN Str(JsToString(h, u) \o JsToString(h, v))
    ELSE LET a == ToNumber(h, u)
             b == ToNumber(h, v)
         IN IF a.t = "NaN" \/ b.t = "NaN" THEN NaN ELSE Num(a.n + b.n)

(* u - v *)
JsSub(h, u, v) ==
    LET a == ToNumber(h, u)
        b == ToNumber(h, v)
    IN IF a.t = "NaN" \/ b.t = "NaN" THEN NaN ELSE Num(a.n - b.n)

(* u * v *)
JsMul(h, u, v) ==
    LET a == ToNumber(h, u)
        b == ToNumber(h, v)
    IN IF a.t = "NaN" \/ b.t = "NaN" THEN NaN ELSE Num(a.n * b.n)

(* -v *)
JsNeg(h, v) ==
    LET a == ToNumber(h, v)
    IN IF a.t = "NaN" THEN NaN ELSE Num(0 - a.n)

(* Math.cos and Math.sin of q quarter turns *)
Cos(q) == CASE q % 4 = 0 -> 1 [] q % 4 = 2 -> -1 [] OTHER -> 0

Sin(q) == CASE q % 4 = 1 -> 1 [] q % 4 = 3 -> -1 [] OTHER -> 0

----------------------------------------------------------------------------
(* Collaborators outside point.ts *)

(* IsPoint: the item has numeric x and y *)
IsPoint(h, item) ==
    /\ item.t = "ref"
    /\ IsNumber(h[item.n].props["x"])
    /\ IsNumber(h[item.n].props["y"])

(* Angle.ToRadians, degrees to quarter turns *)
ToRadians(deg) == deg \div 90

(* Measure.PointDistance of two points on a common axis *)
PointDistance(h, a, b) ==
    LET dx == Get(h, b, "x").n - Get(h, a, "x").n
        dy == Get(h, b, "y").n - Get(h, a, "y").n
    IN (IF dx < 0 THEN 0 - dx ELSE dx) + (IF dy < 0 THEN 0 - dy ELSE dy)

(* Angle.FromPointToRadians of two points on a common axis; `degenerate`   *)
(* is what the utility answers when the two points coincide                *)
FromPointToRadians(h, point, origin, degenerate) ==
    LET dx == Get(h, point, "x").n - Get(h, origin, "x").n
        dy == Get(h, point, "y").n - Get(h, origin, "y").n
    IN CASE dx = 0 /\ dy = 0 -> degenerate
         [] dy = 0 /\ dx > 0 -> 0
         [] dx = 0 /\ dy > 0 -> 1
         [] dy = 0 /\ dx < 0 -> 2
         [] OTHER -> 3

OnCommonAxis(h, a, b) ==
    \/ Get(h, a, "x") = Get(h, b, "x")
    \/ Get(h, a, "y") = Get(h, b, "y")

----------------------------------------------------------------------------
(* Maker.Point *)

(* var x = v; F(x): the value is computed once *)
Bind(v, F(_)) == CHOOSE r \in {F(x) : x \in {v}} : TRUE

Zero(h) == Alloc(h, PointObj(Num(0), Num(0)))

Clone(h, point) ==
    IF CanRead(point)
    THEN Alloc(h, PointObj(Get(h, point, "x"), Get(h, point, "y")))
    ELSE Throw(h)

(* Ensure that returns a copy of an item that has the point shape *)
EnsureCopies(h, args) ==
    LET item == IF Len(args) > 0 THEN args[1] ELSE Undef
    IN IF ~Truthy(item) THEN Zero(h)
       ELSE IF IsPoint(h, item) THEN Clone(h, item)
       ELSE IF IsArray(h, item) /\ Len(h[item.n].elems) > 1
            THEN Alloc(h, PointObj(h[item.n].elems[1], h[item.n].elems[2]))
       ELSE IF Len(args) > 1 THEN Alloc(h, PointObj(args[1], args[1]))
       ELSE Zero(h)

(* Ensure that takes y from the second argument *)
EnsureTwoScalars(h, args) ==
    LET item == IF Len(args) > 0 THEN args[1] ELSE Undef
    IN IF ~Truthy(item) THEN Zero(h)
       ELSE IF IsPoint(h, item) THEN Return(h, item)
       ELSE IF IsArray(h, item) /\ Len(h[item.n].elems) > 1
            THEN Alloc(h, PointObj(h[item.n].elems[1], h[item.n].elems[2]))
       ELSE IF Len(args) > 1 THEN Alloc(h, PointObj(args[1], args[2]))
       ELSE Zero(h)

(* args is the arguments object of the call; item is its first element *)
Ensure(h, args) ==
    LET item == IF Len(args) > 0 THEN args[1] ELSE Undef
    IN IF ~Truthy(item) THEN Zero(h)
       ELSE IF IsPoint(h, item) THEN Return(h, item)
       ELSE IF IsArray(h, item) /\ Len(h[item.n].elems) > 1
            THEN Alloc(h, PointObj(h[item.n].elems[1], h[item.n].elems[2]))
       ELSE IF Len(args) > 1 THEN Alloc(h, PointObj(args[1], args[1]))
       ELSE Zero(h)

(* p1.c -= p2.c when sub, p1.c += p2.c otherwise *)
AddAssign(h, p1, p2, c, sub) ==
    IF sub THEN Set(h, p1, c, JsSub(h, Get(h, p1, c), Get(h, p2, c)))
    ELSE Set(h, p1, c, JsAdd(h, Get(h, p1, c), Get(h, p2, c)))

(* Add that works on Ensure(a) itself, without Clone *)
AddInPlace(h, a, b, subtract) ==
    LET sub == IF subtract = Undef THEN FALSE ELSE Truthy(subtract)
    IN Bind(Ensure(h, <<a>>), LAMBDA e1 :
       Bind(Ensure(e1.h, <<b>>), LAMBDA e2 :
       Bind(AddAssign(e2.h, e1.v, e2.v, "x", sub), LAMBDA h1 :
            Return(AddAssign(h1, e1.v, e2.v, "y", sub), e1.v))))

(* subtract is Undef when the argument is omitted; p1 is c1.v, p2 is e2.v *)
Add(h, a, b, subtract) ==
    LET sub == IF subtract = Undef THEN FALSE ELSE Truthy(subtract)
    IN Bind(Ensure(h, <<a>>), LAMBDA e1 :
       Bind(Clone(e1.h, e1.v), LAMBDA c1 :
          IF ~c1.ok THEN Throw(c1.h)
          ELSE Bind(Ensure(c1.h, <<b>>), LAMBDA e2 :
               Bind(AddAssign(e2.h, c1.v, e2.v, "x", sub), LAMBDA h1 :
                    Return(AddAssign(h1, c1.v, e2.v, "y", sub), c1.v)))))

(* Subtract that leaves the subtract argument out *)
SubtractAdds(h, a, b) == Add(h, a, b, Undef)

Subtract(h, a, b) == Add(h, a, b, Bool(TRUE))

(* FromPolar that leaves the radius out *)
FromPolarUnit(h, angleInRadians, radius) ==
    Alloc(h, PointObj(Num(Cos(angleInRadians)), Num(Sin(angleInRadians))))

(* angleInRadians in quarter turns *)
FromPolar(h, angleInRadians, radius) ==
    Alloc(h, PointObj(JsMul(h, radius, Num(Cos(angleInRadians))),
                      JsMul(h, radius, Num(Sin(angleInRadians)))))

(* angle is a number of degrees *)
getPointFromAngle(h, arc, angle) ==
    Bind(FromPolar(h, ToRadians(angle.n), Get(h, arc, "radius")), LAMBDA fp :
         Add(fp.h, Get(h, arc, "origin"), fp.v, Undef))

(* FromArc that returns the end point first *)
FromArcEndFirst(h, arc) ==
    IF ~CanRead(arc) THEN Throw(h)
    ELSE Bind(getPointFromAngle(h, arc, Get(h, arc, "startAngle")), LAMBDA s :
         Bind(getPointFromAngle(s.h, arc, Get(s.h, arc, "endAngle")), LAMBDA e :
              Alloc(e.h, ArrayObj(<<e.v, s.v>>))))

FromArc(h, arc) ==
    IF ~CanRead(arc) THEN Throw(h)
    ELSE Bind(getPointFromAngle(h, arc, Get(h, arc, "startAngle")), LAMBDA s :
         Bind(getPointFromAngle(s.h, arc, Get(s.h, arc, "endAngle")), LAMBDA e :
              Alloc(e.h, ArrayObj(<<s.v, e.v>>))))

(* p.c = -p.c when the flag is true *)
NegateIf(h, flag, p, c) ==
    IF Truthy(flag) THEN Set(h, p, c, JsNeg(h, Get(h, p, c))) ELSE h

(* Mirror that negates x on mirrorY and y on mirrorX *)
MirrorSwapped(h, point, mirrorX, mirrorY) ==
    Bind(Ensure(h, <<point>>), LAMBDA e :
    Bind(Clone(e.h, e.v), LAMBDA p :
       IF ~p.ok THEN Throw(p.h)
       ELSE Bind(NegateIf(p.h, mirrorY, p.v, "x"), LAMBDA h1 :
                 Return(NegateIf(h1, mirrorX, p.v, "y"), p.v))))

Mirror(h, point, mirrorX, mirrorY) ==
    Bind(Ensure(h, <<point>>), LAMBDA e :
    Bind(Clone(e.h, e.v), LAMBDA p :
       IF ~p.ok THEN Throw(p.h)
       ELSE Bind(NegateIf(p.h, mirrorX, p.v, "x"), LAMBDA h1 :
                 Return(NegateIf(h1, mirrorY, p.v, "y"), p.v))))

(* degenerate: the external angle of a point that coincides with the origin *)
Rotate(h, point, angleInDegrees, rotationOrigin, degenerate) ==
    LET pointAngleInRadians == FromPointToRadians(h, point, rotationOrigin, degenerate)
        d == PointDistance(h, rotationOrigin, point)
    IN Bind(FromPolar(h, pointAngleInRadians + ToRadians(angleInDegrees), Num(d)),
            LAMBDA rotatedPoint : Add(rotatedPoint.h, rotationOrigin, rotatedPoint.v, Undef))

(* p.c *= scale *)
MulAssign(h, p, c, scale) == Set(h, p, c, JsMul(h, Get(h, p, c), scale))

Scale(h, point, scale) ==
    Bind(Ensure(h, <<point>>), LAMBDA e :
    Bind(Clone(e.h, e.v), LAMBDA p :
       IF ~p.ok THEN Throw(p.h)
       ELSE Bind(MulAssign(p.h, p.v, "x", scale), LAMBDA h1 :
                 Return(MulAssign(h1, p.v, "y", scale), p.v))))

----------------------------------------------------------------------------
(* The caller: the values it passes and the objects it builds *)

Nums == -MaxNum .. MaxNum

Degrees == {-90, 0, 90, 180}

Quarters == 0 .. 3

Flags == {Bool(TRUE), Bool(FALSE)}

(* absent, falsy and other non-object values *)
PrimVals == {Undef, Null, Num(0), Num(MaxNum), Str(""), Str("a")}

ElemVals == {Num(MaxNum), Num(-MaxNum), Str("a")}

PointInputs == {PointObj(Num(vx), Num(vy)) : vx \in Nums, vy \in Nums}

(* arrays of 0 .. MaxLen elements; the elements after the second are MaxNum *)
ArrayInputs ==
    {ArrayObj(<<>>), ArrayObj(<<Undef, Null>>)}
    \cup {ArrayObj(<<e>>) : e \in ElemVals}
    \cup {ArrayObj(<<e1, e2>> \o [i \in 1 .. k |-> Num(MaxNum)]) :
            e1 \in ElemVals, e2 \in ElemVals, k \in 0 .. (MaxLen - 2)}

(* objects without the point shape *)
OtherInputs == {PointObj(Undef, Undef), PointObj(Str("a"), Num(MaxNum))}

ArcInputs(origins) ==
    {ArcObj(o, Num(r), Num(sa), Num(ea)) :
        o \in origins, r \in Nums, sa \in Degrees, ea \in Degrees}

Refs(h) == {Ref(a) : a \in 1 .. Len(h)}

(* the arguments object of a call of Ensure: nothing, the item, or the     *)
(* item and a second argument                                              *)
EnsureArgs(D) ==
    {<<>>} \cup {<<i>> : i \in D.I} \cup {<<i, e>> : i \in D.I, e \in D.E}

(* the objects a returned value gives the caller *)
ResultAddrs(h, v) ==
    IF v.t # "ref" THEN {}
    ELSE {v.n} \cup {h[v.n].elems[i].n : i \in {j \in 1 .. Len(h[v.n].elems) : h[v.n].elems[j].t = "ref"}}

(* what a caller passes: I the values given to Ensure, Clone and FromArc,  *)
(* P the values given for the point of the other operations, S the scale   *)
(* factors and radii, A the angles, F the values given for subtract, M the *)
(* mirror flags, E the second arguments given to Ensure                    *)
WideInputs(h) ==
    [I |-> Refs(h) \cup PrimVals, P |-> Refs(h) \cup {Undef, Str("a")},
     S |-> Nums, A |-> Degrees, F |-> Flags \cup {Undef},
     M |-> Flags, E |-> {Undef, Num(MaxNum)}]

NarrowInputs(h) ==
    [I |-> Refs(h) \cup {Undef}, P |-> Refs(h) \cup {Undef},
     S |-> {-MaxNum}, A |-> {90}, F |-> {Undef, Bool(TRUE)},
     M |-> Flags, E |-> {Num(MaxNum)}]

(* the objects of a caller that makes several calls *)
SeqObjects(h) ==
    {PointObj(Num(MaxNum), Num(-MaxNum)), PointObj(Num(MaxNum), Num(0)),
     ArrayObj(<<Num(-MaxNum), Num(MaxNum)>>),
     ArrayObj(<<Str("a")>>)}
    \cup {ArcObj(o, Num(MaxNum), Num(180), Num(90)) : o \in {r \in Refs(h) : IsPoint(h, r)} \cup {Undef}}

(* the heaps of a caller that makes one call: up to two points, arrays or  *)
(* other objects, or an arc and its origin                                 *)
CallHeaps ==
    LET Objs == PointInputs \cup ArrayInputs \cup OtherInputs
        Origins == {PointObj(Num(MaxNum), Num(0)), PointObj(Num(0), Num(-MaxNum)),
                    ArrayObj(<<Num(MaxNum), Num(-MaxNum)>>), ArrayObj(<<>>)}
    IN {<<>>} \cup {<<o>> : o \in Objs} \cup {<<o1, o2>> : o1 \in Objs, o2 \in Objs}
       \cup {<<o, a>> : o \in Origins, a \in ArcInputs({Ref(1), Undef})}

----------------------------------------------------------------------------
(* Steps of the caller *)

(* the caller's record of its last step: the operation, its arguments and  *)
(* outcome, and the heap and the returned values before it                 *)
Step(op, args, ok, res) ==
    [op |-> op, args |-> args, ok |-> ok, res |-> res, pre |-> heap, ret |-> returned]

NoCall == [op |-> "none", args |-> <<>>, ok |-> TRUE, res |-> Undef, pre |-> <<>>, ret |-> {}]

Init ==
    /\ heap = <<>>
    /\ last = NoCall
    /\ returned = {}
    /\ mutated = {}

InitCall ==
    /\ heap \in CallHeaps
    /\ last = NoCall
    /\ returned = {}
    /\ mutated = {}

(* the caller builds a point, an array or an arc *)
New ==
    /\ Len(heap) < MaxHeap
    /\ \E obj \in SeqObjects(heap) :
          /\ heap' = Append(heap, obj)
          /\ last' = Step("new", <<Ref(Len(heap) + 1)>>, TRUE, Undef)
    /\ UNCHANGED <<returned, mutated>>

(* the caller assigns a coordinate of a value a call returned *)
Mutate ==
    /\ Len(heap) < MaxHeap
    /\ \E a \in returned, p \in {"x", "y"} :
          /\ heap' = Set(heap, Ref(a), p, Num(MaxNum + 1))
          /\ last' = Step("mutate", <<Ref(a)>>, TRUE, Undef)
          /\ mutated' = mutated \cup {a}
    /\ UNCHANGED returned

(* a call of an operation and its outcome *)
Call(op, args, outcome) ==
    \E out \in {outcome} :
        /\ heap' = out.h
        /\ last' = Step(op, args, out.ok, out.v)
        /\ returned' = IF out.ok THEN returned \cup ResultAddrs(out.h, out.v) ELSE returned
        /\ UNCHANGED mutated

CallZero == Call("Zero", <<>>, Zero(heap))

CallEnsure(D) ==
    \E args \in EnsureArgs(D) : Call("Ensure", args, Ensure(heap, args))

CallClone(D) ==
    \E point \in D.I : Call("Clone", <<point>>, Clone(heap, point))

CallAdd(D) ==
    \E a \in D.P, b \in D.P, subtract \in D.F :
        Call("Add", <<a, b, subtract>>, Add(heap, a, b, subtract))

CallSubtract(D) ==
    \E a \in D.P, b \in D.P : Call("Subtract", <<a, b>>, Subtract(heap, a, b))

CallScale(D) ==
    \E point \in D.P, scale \in D.S :
        Call("Scale", <<point, Num(scale)>>, Scale(heap, point, Num(scale)))

CallMirror(D) ==
    \E point \in D.P, mirrorX \in D.M, mirrorY \in D.M :
        Call("Mirror", <<point, mirrorX, mirrorY>>, Mirror(heap, point, mirrorX, mirrorY))

(* point and rotationOrigin are points on a common axis *)
CallRotate(D) ==
    \E point \in Refs(heap), rotationOrigin \in Refs(heap), angleInDegrees \in D.A :
        /\ IsPoint(heap, point) /\ IsPoint(heap, rotationOrigin)
        /\ OnCommonAxis(heap, point, rotationOrigin)
        /\ \E degenerate \in IF PointDistance(heap, rotationOrigin, point) = 0
                             THEN Quarters ELSE {0} :
              Call("Rotate", <<point, Num(angleInDegrees), rotationOrigin, Num(degenerate)>>,
                   Rotate(heap, point, angleInDegrees, rotationOrigin, degenerate))

CallFromPolar(D) ==
    \E angle \in D.A, radius \in D.S :
        Call("FromPolar", <<Num(ToRadians(angle)), Num(radius)>>,
             FromPolar(heap, ToRadians(angle), Num(radius)))

(* arc is an arc path object, or absent *)
CallFromArc(D) ==
    \E arc \in {r \in D.I : r.t = "ref" => IsNumber(Get(heap, r, "startAngle"))} :
        Call("FromArc", <<arc>>, FromArc(heap, arc))

(* the caller's program: objects, calls and assignments in any order *)
Next ==
    \/ New
    \/ Mutate
    \/ Len(heap) < MaxHeap /\ CallAdd(NarrowInputs(heap))
    \/ Len(heap) < MaxHeap /\ CallClone(NarrowInputs(heap))
    \/ Len(heap) < MaxHeap /\ CallEnsure(NarrowInputs(heap))
    \/ Len(heap) < MaxHeap /\ CallFromPolar(NarrowInputs(heap))
    \/ Len(heap) < MaxHeap /\ CallFromArc(NarrowInputs(heap))
    \/ Len(heap) < MaxHeap /\ CallMirror(NarrowInputs(heap))
    \/ Len(heap) < MaxHeap /\ CallRotate(NarrowInputs(heap))
    \/ Len(heap) < MaxHeap /\ CallScale(NarrowInputs(heap))
    \/ Len(heap) < MaxHeap /\ CallSubtract(NarrowInputs(heap))
    \/ Len(heap) < MaxHeap /\ CallZero

Spec == Init /\ [][Next]_vars

(* one call on the caller's objects *)
NextCall ==
    \/ last = NoCall /\ CallAdd(WideInputs(heap))
    \/ last = NoCall /\ CallClone(WideInputs(heap))
    \/ last = NoCall /\ CallEnsure(WideInputs(heap))
    \/ last = NoCall /\ CallFromPolar(WideInputs(heap))
    \/ last = NoCall /\ CallFromArc(WideInputs(heap))
    \/ last = NoCall /\ CallMirror(WideInputs(heap))
    \/ last = NoCall /\ CallRotate(WideInputs(heap))
    \/ last = NoCall /\ CallScale(WideInputs(heap))
    \/ last = NoCall /\ CallSubtract(WideInputs(heap))
    \/ last = NoCall /\ CallZero

SpecCall == InitCall /\ [][NextCall]_vars

----------------------------------------------------------------------------
(* Properties *)

Coords(h, v) == <<Get(h, v, "x"), Get(h, v, "y")>>

(* every object of h1 is the same in h2 *)
SameObjects(h1, h2) == \A a \in 1 .. Len(h1) : h2[a] = h1[a]

(* v is an object that h does not hold *)
Fresh(h, v) == v.t = "ref" /\ v.n > Len(h)

Numeric(v) == v.t \in {"number", "NaN"}

(* a point object or an array of exactly two numbers *)
PointOrPair(h, v) ==
    \/ IsPoint(h, v)
    \/ /\ IsArray(h, v)
       /\ Len(h[v.n].elems) = 2
       /\ IsNumber(h[v.n].elems[1]) /\ IsNumber(h[v.n].elems[2])

(* the numbers of a point object or of an array of two numbers *)
PairOf(h, v) ==
    IF IsArray(h, v) THEN <<h[v.n].elems[1].n, h[v.n].elems[2].n>>
    ELSE <<Get(h, v, "x").n, Get(h, v, "y").n>>

(* C1: every Point that Ensure, Zero, Clone, Add, Subtract, Scale, Mirror, *)
(* FromPolar and FromArc return has a numeric x and a numeric y            *)
C1_ReturnedPointsNumeric ==
    (last.ok /\ last.op \in {"Ensure", "Zero", "Clone", "Add", "Subtract", "Scale",
                             "Mirror", "FromPolar", "FromArc"})
    => IF last.op = "FromArc"
       THEN \A i \in 1 .. Len(heap[last.res.n].elems) :
               /\ Numeric(Get(heap, heap[last.res.n].elems[i], "x"))
               /\ Numeric(Get(heap, heap[last.res.n].elems[i], "y"))
       ELSE Numeric(Get(heap, last.res, "x")) /\ Numeric(Get(heap, last.res, "y"))

(* C2: no call of an operation ends in an exception *)
C2_NoCallThrows == last.ok

C4_NewPointInputsUntouched ==
    last.op \in {"Zero", "Clone", "Add", "Subtract", "Scale", "Mirror", "Rotate", "FromPolar"}
    => /\ SameObjects(last.pre, heap)
       /\ last.ok => /\ Fresh(last.pre, last.res)
                     /\ last.res.n \notin last.ret
                     /\ \A i \in 1 .. Len(last.args) : last.res # last.args[i]
       /\ last.op = "Zero" => last.ok /\ Coords(heap, last.res) = <<Num(0), Num(0)>>

C4_Witness ==
    /\ last.op = "Zero" /\ last.ok
    /\ Coords(heap, last.res) = <<Num(0), Num(0)>>
    /\ \E a \in mutated \cap last.ret : Coords(heap, Ref(a)) # <<Num(0), Num(0)>>

C6Operand(h, v) ==
    IF IsPoint(h, v) THEN Coords(h, v)
    ELSE IF IsArray(h, v) /\ Len(h[v.n].elems) >= 2
            /\ IsNumber(h[v.n].elems[1]) /\ IsNumber(h[v.n].elems[2])
         THEN <<h[v.n].elems[1], h[v.n].elems[2]>>
         ELSE <<Num(0), Num(0)>>

(* C6: Add(a, b, subtract) returns the sum, or with subtract the           *)
(* difference, of the coordinates of a and b, a malformed or absent        *)
(* operand counting as (0, 0); Subtract(a, b) returns what Add(a, b, true) *)
(* returns                                                                 *)
C6_AddOfOperands ==
    last.op \in {"Add", "Subtract"}
    => LET a == C6Operand(last.pre, last.args[1])
           b == C6Operand(last.pre, last.args[2])
           minus == last.op = "Subtract" \/ last.args[3] = Bool(TRUE)
           same == Add(last.pre, last.args[1], last.args[2], Bool(TRUE))
       IN /\ last.ok
          /\ Coords(heap, last.res) =
                IF minus THEN <<Num(a[1].n - b[1].n), Num(a[2].n - b[2].n)>>
                         ELSE <<Num(a[1].n + b[1].n), Num(a[2].n + b[2].n)>>
          /\ last.op = "Subtract" => Coords(heap, last.res) = Coords(same.h, same.v)

(* C7: for points or arrays of two numbers a and b, Add(Subtract(a, b), b) *)
(* has the coordinates of a, and a and b are unchanged                     *)
C7_AddUndoesSubtract ==
    (/\ last.op = "Subtract"
     /\ PointOrPair(last.pre, last.args[1]) /\ PointOrPair(last.pre, last.args[2]))
    => \E back \in {Add(heap, last.res, last.args[2], Undef)} :
          /\ last.ok /\ back.ok
          /\ IsNumber(Get(back.h, back.v, "x")) /\ IsNumber(Get(back.h, back.v, "y"))
          /\ PairOf(back.h, back.v) = PairOf(last.pre, last.args[1])
          /\ SameObjects(last.pre, back.h)

C7_Witness ==
    /\ last.op = "Subtract" /\ last.ok
    /\ IsPoint(last.pre, last.args[1])
    /\ IsArray(last.pre, last.args[2]) /\ PointOrPair(last.pre, last.args[2])
    /\ PairOf(last.pre, last.args[2]) = <<MaxNum, -MaxNum>>
    /\ PairOf(heap, last.res) = <<PairOf(last.pre, last.args[1])[1] - MaxNum,
                                  PairOf(last.pre, last.args[1])[2] + MaxNum>>

(* C8: Mirror of a point negates x exactly when mirrorX is true and y      *)
(* exactly when mirrorY is true, and Mirror of the result with the same    *)
(* flags has the coordinates of the point                                  *)
C8_MirrorFlags ==
    (last.op = "Mirror" /\ IsPoint(last.pre, last.args[1]))
    => \E twice \in {Mirror(heap, last.res, last.args[2], last.args[3])} :
          LET p == PairOf(last.pre, last.args[1])
              mirrorX == last.args[2] = Bool(TRUE)
              mirrorY == last.args[3] = Bool(TRUE)
          IN /\ last.ok
             /\ Coords(heap, last.res) =
                   <<Num(IF mirrorX THEN 0 - p[1] ELSE p[1]), Num(IF mirrorY THEN 0 - p[2] ELSE p[2])>>
             /\ twice.ok /\ Coords(twice.h, twice.v) = Coords(last.pre, last.args[1])

C8_Witness ==
    /\ last.op = "Mirror" /\ last.ok
    /\ IsPoint(last.pre, last.args[1])
    /\ last.args[2] = Bool(TRUE) /\ last.args[3] = Bool(FALSE)
    /\ PairOf(last.pre, last.args[1]) = <<MaxNum, -MaxNum>>
    /\ PairOf(heap, last.res) = <<-MaxNum, -MaxNum>>

(* the point FromArc is to give for an angle of the arc *)
C9Expected(h, arc, angle) ==
    Bind(FromPolar(h, ToRadians(angle.n), Get(h, arc, "radius")), LAMBDA fp :
    Bind(Add(fp.h, Get(h, arc, "origin"), fp.v, Undef), LAMBDA sum :
         Coords(sum.h, sum.v)))

(* C9: FromArc(arc) returns an array of exactly two points, first          *)
(* Add(arc.origin, FromPolar(ToRadians(arc.startAngle), arc.radius)), then *)
(* the same of arc.endAngle; both are new objects, distinct from each      *)
(* other and from arc.origin, and no object that exists is changed         *)
C9_FromArcStartThenEnd ==
    (last.op = "FromArc" /\ last.args[1].t = "ref")
    => LET arc == last.args[1]
           h == last.pre
           res == last.res
           pts == heap[res.n].elems
       IN /\ last.ok
          /\ IsArray(heap, res) /\ Fresh(h, res)
          /\ Len(pts) = 2
          /\ Coords(heap, pts[1]) = C9Expected(h, arc, Get(h, arc, "startAngle"))
          /\ Coords(heap, pts[2]) = C9Expected(h, arc, Get(h, arc, "endAngle"))
          /\ Fresh(h, pts[1]) /\ Fresh(h, pts[2])
          /\ pts[1] # pts[2]
          /\ pts[1] # Get(h, arc, "origin") /\ pts[2] # Get(h, arc, "origin")
          /\ SameObjects(h, heap)

C9_Witness ==
    /\ last.op = "FromArc" /\ last.ok
    /\ IsPoint(last.pre, Get(last.pre, last.args[1], "origin"))
    /\ PairOf(last.pre, Get(last.pre, last.args[1], "origin")) = <<MaxNum, 0>>
    /\ Get(last.pre, last.args[1], "radius") = Num(-MaxNum)
    /\ Get(last.pre, last.args[1], "startAngle") = Num(180)
    /\ Get(last.pre, last.args[1], "endAngle") = Num(90)
    /\ PairOf(heap, heap[last.res.n].elems[1]) = <<2 * MaxNum, 0>>
    /\ PairOf(heap, heap[last.res.n].elems[2]) = <<MaxNum, -MaxNum>>

(* C10: when point coincides with rotationOrigin, Rotate returns, for      *)
(* every angleInDegrees and every angle the external utility reports, a    *)
(* new point with the coordinates of rotationOrigin, and rotationOrigin is *)
(* not changed                                                             *)
C10_RotateAtOrigin ==
    (last.op = "Rotate" /\ PointDistance(last.pre, last.args[3], last.args[1]) = 0)
    => /\ last.ok
       /\ Fresh(last.pre, last.res)
       /\ last.res # last.args[3]
       /\ Coords(heap, last.res) = Coords(last.pre, last.args[3])
       /\ SameObjects(last.pre, heap)

C10_Witness ==
    /\ last.op = "Rotate" /\ last.ok
    /\ last.args[1] # last.args[3]
    /\ PairOf(last.pre, last.args[1]) = <<MaxNum, -MaxNum>>
    /\ PairOf(last.pre, last.args[3]) = <<MaxNum, -MaxNum>>
    /\ last.args[2] = Num(90) /\ last.args[4] = Num(1)
    /\ PairOf(heap, last.res) = <<MaxNum, -MaxNum>>

====
